---- MODULE Spec2Model ----
(***************************************************************************)
(* Model of downloader/download.py: the concurrent fetch-and-persist       *)
(* pipeline.  A batch (download_images_single_query_async) extracts the    *)
(* records of one query, fans them out over a ThreadPoolExecutor of five   *)
(* workers running download_image_from_url, and optionally writes a CSV.   *)
(* download_list_queries runs one batch per query in an outer pool of five *)
(* workers.                                                                *)
(*                                                                         *)
(* Text is a sequence of one-character strings, so that strip, replace and *)
(* str() are computed and not assumed.  A path is a record of the base     *)
(* directory, the folder and the file name.                                *)
(***************************************************************************)
EXTENDS Integers, Sequences, FiniteSets, TLC

VARIABLES
    mpc,      \* position of the main block (lines 299-307)
    args,     \* the command line: output_dir, folder_name, the flags, the token
              \* list of --query and the token lists of --list_queries
    query,    \* batch id -> the query passed to the batch
    results,  \* batch id -> the records the result page of the query carries
    bpc,      \* batch id -> position of download_images_single_query_async
    bext,     \* batch id -> how the extraction of the batch went, "none" before it
    bexc,     \* batch id -> exception the batch ended with, "none" if none
    bprint,   \* batch id -> messages printed by fetch_image_urls
    images,   \* batch id -> the list fetch_image_urls returned
    task,     \* batch id -> the futures submitted to the inner pool, in order
    dirs,     \* directories that exist on disk
    files,    \* image files on disk: set of [path, data, full]
    csvs,     \* csv files on disk: set of [dir, name, rows]
    faults    \* number of failures the environment has injected so far

vars == <<mpc, args, query, results, bpc, bext, bexc, bprint, images, task, dirs, files, csvs, faults>>

----------------------------------------------------------------------------
(* Bounds of the model *)

MaxRecords == 3     \* records on the result page of --query, at most
PoolExtra == 1      \* records beyond the width of the inner pool, at most
MaxListRecords == 2 \* records on the result pages of a --list_queries run, in all
MaxFaults == 2      \* failures injected in one run, at most

----------------------------------------------------------------------------
(* Text *)

S_dog == <<"d", "o", "g">>
S_cat == <<"c", "a", "t">>
S_pets == <<"p", "e", "t", "s">>
S_red == <<"r", "e", "d">>
S_bear == <<"b", "e", "a", "r">>
S_cat_plus_dog == <<"c", "a", "t", "+", "d", "o", "g">>
S_horse == <<"h", "o", "r", "s", "e">>
S_red_spaces_bear == S_red \o <<" ", " ", " ">> \o S_bear
S_jpg == <<"j", "p", "g">>
S_png == <<"p", "n", "g">>
S_image_ == <<"i", "m", "a", "g", "e", "_">>
S_urls_csv == <<"_", "u", "r", "l", "s", ".", "c", "s", "v">>

\* Python's None, for a text argument and for a directory argument
NoName == <<"None">>
None == "None"

Digits == <<"0", "1", "2", "3", "4", "5", "6", "7", "8", "9">>

RECURSIVE StrInt(_)
\* str(idx) of a non-negative integer
StrInt(n) == IF n < 10 THEN <<Digits[n + 1]>>
             ELSE StrInt(n \div 10) \o <<Digits[(n % 10) + 1]>>

\* s.replace(a, b) for one-character a and b
Replace(s, a, b) == [i \in 1..Len(s) |-> IF s[i] = a THEN b ELSE s[i]]

StripChars == {"[", "'", "]"}

RECURSIVE LStrip(_)
LStrip(s) == IF s # <<>> /\ Head(s) \in StripChars THEN LStrip(Tail(s)) ELSE s

RECURSIVE RStrip(_)
RStrip(s) == IF s # <<>> /\ s[Len(s)] \in StripChars
             THEN RStrip(SubSeq(s, 1, Len(s) - 1)) ELSE s

\* default_query_name, lines 85-87
default_query_name_keeps_plus(q) ==
    LET query_string == RStrip(LStrip(q))
    IN  IF \E i \in 1..Len(query_string) : query_string[i] = " "
        THEN Replace(query_string, " ", "_")
        ELSE query_string

\* default_query_name, lines 83-87
default_query_name(q) ==
    LET query_string == Replace(RStrip(LStrip(q)), "+", "_")
    IN  IF \E i \in 1..Len(query_string) : query_string[i] = " "
        THEN Replace(query_string, " ", "_")
        ELSE query_string

\* line 246: query = str(query).replace(' ', '+'), on the text str(query)
RewriteQuery(q) == Replace(q, " ", "+")

RECURSIVE JoinWith(_, _)
\* sep.join(tokens)
JoinWith(sep, tokens) ==
    IF tokens = <<>> THEN <<>>
    ELSE IF Len(tokens) = 1 THEN tokens[1]
    ELSE tokens[1] \o sep \o JoinWith(sep, Tail(tokens))

\* str(query) of line 246 when query is the token list argparse builds for
\* --query (nargs='*'): the list's repr
StrList(tokens) ==
    <<"[">> \o JoinWith(<<",", " ">>, [i \in 1..Len(tokens) |-> <<"'">> \o tokens[i] \o <<"'">>])
    \o <<"]">>

RECURSIVE IsInfix(_, _)
\* Python's  c in text  for texts
IsInfix(c, text) ==
    \/ Len(c) <= Len(text) /\ SubSeq(text, 1, Len(c)) = c
    \/ text # <<>> /\ IsInfix(c, Tail(text))

\* line 306: ' '.join(c for c in query if c not in "[''],") on one token list
JoinTokens(tokens) ==
    JoinWith(<<" ">>, SelectSeq(tokens, LAMBDA c : ~IsInfix(c, <<"[", "'", "'", "]", ",">>)))

\* line 204: filename = 'image_' + str(idx) + '.' + extension
Filename(idx, extension) == S_image_ \o StrInt(idx) \o <<".">> \o extension

\* line 100: filename = name + '_urls.csv'
CsvName(name) == name \o S_urls_csv

----------------------------------------------------------------------------
(* Program constants *)

InnerWidth == 5   \* line 258: ThreadPoolExecutor(max_workers=5)
OuterWidth == 5   \* line 279: ThreadPoolExecutor(max_workers=5)

\* --output_dir as path_dir accepted it, and the Downloads directory that
\* default_path_downloads returns
OutDir == "/tmp/out"
BadDir == "/tmp/missing"
Downloads == "~/Downloads"

\* save_urls_csv, line 105
CsvHeader == <<"image_url", "extension">>

----------------------------------------------------------------------------
(* What the network may answer *)

RecordPool == << [url |-> "urlA", ext |-> S_jpg], [url |-> "urlB", ext |-> S_png],
                 [url |-> "urlC", ext |-> S_jpg], [url |-> "urlA", ext |-> S_png] >>

\* the n records a result page carries, starting at position off of the pool
ImagesOf(n, off) ==
    [i \in 1..n |-> RecordPool[((off + i - 1) % Len(RecordPool)) + 1]]

\* the bytes a server sends for url: the image, or the body of an error response
Body(url, page) == [url |-> url, page |-> page]

NoPath == [dir |-> None, folder |-> NoName, name |-> NoName]

\* a directory on disk: a base directory, or a folder inside one
Dir(base) == [dir |-> base, folder |-> NoName]
Folder(base, folder_name) == [dir |-> base, folder |-> folder_name]

----------------------------------------------------------------------------
(* fetch_image_urls, lines 153-175 *)

\* the except clauses of lines 158 and 161
ExtractCatches == {"Timeout", "HTTPError"}

\* requests.get(url, headers, timeout=10) of line 154 and the parse of lines
\* 166-173: "ok" a result page, "http_status" a response with an error status
\* (requests.get returns it, its page carries no record), "Timeout" and
\* "ConnectionError" raised by requests.get, "KeyError" raised by line 170.
ExtractOutcomes == {"ok", "http_status", "Timeout", "ConnectionError", "KeyError"}

\* What the call ends with.  A caught exception is printed and control falls to
\* line 167, where soup was never bound: UnboundLocalError.
fetch_image_urls(outcome, recs) ==
    CASE outcome = "ok" -> [images |-> recs, printed |-> "none", exc |-> "none"]
      [] outcome = "http_status" -> [images |-> <<>>, printed |-> "none", exc |-> "none"]
      [] outcome = "KeyError" -> [images |-> <<>>, printed |-> "none", exc |-> "KeyError"]
      [] outcome \in ExtractCatches ->
            [images |-> <<>>, printed |-> outcome, exc |-> "UnboundLocalError"]
      [] OTHER -> [images |-> <<>>, printed |-> "none", exc |-> outcome]

----------------------------------------------------------------------------
(* download_image_from_url, lines 196-230 *)

\* requests.get(img_url, stream=True, timeout=(20, 40)) of line 200: a response
\* (with a success status or an error status: no raise_for_status is called, so
\* an error status raises nothing), or an exception of requests.
RequestOutcomes == {"ok", "http_status", "ConnectTimeout", "ReadTimeout", "ConnectionError"}

\* the outcomes in which requests.get returns
Responses == {"ok", "http_status"}

\* the except clauses of lines 223-230, in order: the message printed for an
\* exception raised in the outer try, "none" when no clause catches it
FetchHandler(exc) ==
    CASE exc \in {"ConnectTimeout", "ReadTimeout"} -> "timeout"
      [] exc = "HTTPError" -> "http"
      [] exc = "ConnectionError" -> "connection"
      [] OTHER -> "none"

\* the except clause of line 218
SaveHandler(exc) == IF exc = "IOError" THEN "save" ELSE "none"

\* lines 214-216: the file opens and every chunk is written ("ok"), open or
\* write raises IOError, or reading the raw stream raises urllib3's
\* ReadTimeoutError (res is the raw urllib3 response: not an IOError, not a
\* requests exception)
SaveOutcomes == {"ok", "IOError", "ReadTimeoutError"}

\* create_folder that makes a sibling folder when the folder already exists
create_folder_fresh(ds, output_dir, folder_name) ==
    IF Dir(output_dir) \in ds
    THEN LET name == IF Folder(output_dir, folder_name) \in ds
                     THEN folder_name \o <<"_", "1">> ELSE folder_name
         IN  [dirs |-> ds \cup {Folder(output_dir, name)},
              folder |-> [dir |-> output_dir, folder |-> name, name |-> NoName]]
    ELSE [dirs |-> ds, folder |-> NoPath]

\* create_folder, lines 72-75: the folder, created with its parents, when
\* output_dir exists; None otherwise (the function falls off its end)
create_folder(ds, output_dir, folder_name) ==
    IF Dir(output_dir) \in ds
    THEN [dirs |-> ds \cup {Folder(output_dir, folder_name)},
          folder |-> [dir |-> output_dir, folder |-> folder_name, name |-> NoName]]
    ELSE [dirs |-> ds, folder |-> NoPath]

\* ResolveFolder with a default that does not depend on the query
ResolveFolderShared(q, folder_name) ==
    IF folder_name = NoName THEN <<>> ELSE folder_name

\* ResolveDir that ignores --output_dir
ResolveDirDefault(output_dir) == Downloads

\* lines 207-208
ResolveDir(output_dir) == IF output_dir = None THEN Downloads ELSE output_dir
ResolveFolder(q, folder_name) ==
    IF folder_name = NoName THEN default_query_name(q) ELSE folder_name

\* line 214: path/filename
Join(folder, filename) == [folder EXCEPT !.name = filename]

\* open(path, 'wb') and the writes: the file is created or truncated
WriteFile(fs, p, data, full) ==
    {f \in fs : f.path # p} \cup {[path |-> p, data |-> data, full |-> full]}

\* NewTask with an enumerate that counts from 1
NewTaskFromOne(imgs, k) ==
    [idx |-> k, image |-> imgs[k], st |-> "queued", page |-> "none",
     path |-> NoPath, printed |-> "none", exc |-> "none", tries |-> 0]

\* line 259: the future of the k-th record (k from 1), enumerate counts from 0
NewTask(imgs, k) ==
    [idx |-> k - 1, image |-> imgs[k], st |-> "queued", page |-> "none",
     path |-> NoPath, printed |-> "none", exc |-> "none", tries |-> 0]

----------------------------------------------------------------------------
(* State *)

Batches == DOMAIN query

Running(b) == {k \in 1..Len(task[b]) : task[b][k].st = "running"}

AllDone(b) == \A k \in 1..Len(task[b]) : task[b][k].st = "done"

Finished(b) == bpc[b] \in {"returned", "raised"}

\* a failure the environment injects counts against MaxFaults
Inject(outcome) ==
    IF outcome = "ok" THEN faults' = faults
    ELSE faults < MaxFaults /\ faults' = faults + 1

\* line 246: the query as the batch uses it from there on
BatchQuery(b) == RewriteQuery(query[b])

Configs ==
    [output_dir : {None, OutDir}, folder_name : {NoName, S_pets},
     just_csv_no_download : BOOLEAN, urls_to_csv : BOOLEAN]

\* lines 291-297: the options c with the tokens of --query and the token lists
\* of --list_queries; an option that was not given is the empty list here
Inputs(c, q, lq) ==
    [output_dir |-> c.output_dir, folder_name |-> c.folder_name,
     just_csv_no_download |-> c.just_csv_no_download, urls_to_csv |-> c.urls_to_csv,
     query |-> q, list_queries |-> lq]

\* the disk when the run starts: path_dir (lines 39-41) accepted --output_dir,
\* so it exists; the Downloads directory may or may not
Disks == {{Dir(OutDir)}, {Dir(OutDir), Dir(Downloads)}}

----------------------------------------------------------------------------
(* download_images_single_query_async, lines 246-265 *)

\* lines 246-256: the extraction, and the branch on just_csv_no_download
Extract(b) ==
    /\ bpc[b] = "extract"
    /\ \E outcome \in ExtractOutcomes :
          LET r == fetch_image_urls(outcome, results[b])
          IN  /\ Inject(outcome)
              /\ bext' = [bext EXCEPT ![b] = outcome]
              /\ images' = [images EXCEPT ![b] = r.images]
              /\ bprint' = [bprint EXCEPT ![b] = r.printed]
              /\ bexc' = [bexc EXCEPT ![b] = r.exc]
              /\ bpc' = [bpc EXCEPT ![b] =
                            IF r.exc # "none" THEN "raised"
                            ELSE IF ~args.just_csv_no_download THEN "pool"
                            ELSE "csv"]
    /\ UNCHANGED <<mpc, args, query, results, task, dirs, files, csvs>>

\* lines 259-260: as_completed first drains the generator, which submits one
\* future per record of enumerate(images), in order
Submit(b) ==
    /\ bpc[b] = "pool"
    /\ Len(task[b]) < Len(images[b])
    /\ task' = [task EXCEPT ![b] = [k \in 1..Len(images[b]) |-> NewTask(images[b], k)]]
    /\ UNCHANGED <<mpc, args, query, results, bpc, bext, bexc, bprint, images, dirs, files, csvs, faults>>

\* Start with a pool that grows a worker for every future
StartUnbounded(b, k) ==
    /\ task[b][k].st = "queued"
    /\ \A j \in 1..(k - 1) : task[b][j].st # "queued"
    /\ task' = [task EXCEPT ![b][k].st = "running"]
    /\ UNCHANGED <<mpc, args, query, results, bpc, bext, bexc, bprint, images, dirs, files, csvs, faults>>

\* a worker of the inner pool takes the oldest queued future
Start(b, k) ==
    /\ task[b][k].st = "queued"
    /\ \A j \in 1..(k - 1) : task[b][j].st # "queued"
    /\ Cardinality(Running(b)) < InnerWidth
    /\ task' = [task EXCEPT ![b][k].st = "running"]
    /\ UNCHANGED <<mpc, args, query, results, bpc, bext, bexc, bprint, images, dirs, files, csvs, faults>>

\* FetchFails with a failure that cancels the futures still queued
FetchFailsAborts(b, k) ==
    /\ task[b][k].st = "running"
    /\ \E outcome \in RequestOutcomes \ Responses :
          /\ Inject(outcome)
          /\ task' = [task EXCEPT ![b] =
                [j \in 1..Len(@) |->
                    IF j = k
                    THEN [@[j] EXCEPT !.st = "done", !.tries = @ + 1,
                                      !.printed = FetchHandler(outcome)]
                    ELSE IF @[j].st = "queued" THEN [@[j] EXCEPT !.st = "done"]
                    ELSE @[j]]]
    /\ UNCHANGED <<mpc, args, query, results, bpc, bext, bexc, bprint, images, dirs, files, csvs>>

\* FetchFails that puts the task back in the queue after its first failure
FetchFailsRetries(b, k) ==
    /\ task[b][k].st = "running"
    /\ \E outcome \in RequestOutcomes \ Responses :
          /\ Inject(outcome)
          /\ task' = [task EXCEPT ![b][k] =
                [@ EXCEPT !.st = IF task[b][k].tries = 0 THEN "queued" ELSE "done",
                          !.tries = @ + 1,
                          !.printed = FetchHandler(outcome),
                          !.exc = IF FetchHandler(outcome) = "none" THEN outcome ELSE "none"]]
    /\ UNCHANGED <<mpc, args, query, results, bpc, bext, bexc, bprint, images, dirs, files, csvs>>

\* lines 198-202 and the handlers of lines 223-230: the request fails
FetchFails(b, k) ==
    /\ task[b][k].st = "running"
    /\ \E outcome \in RequestOutcomes \ Responses :
          /\ Inject(outcome)
          /\ task' = [task EXCEPT ![b][k] =
                [@ EXCEPT !.st = "done", !.tries = @ + 1,
                          !.printed = FetchHandler(outcome),
                          !.exc = IF FetchHandler(outcome) = "none" THEN outcome ELSE "none"]]
    /\ UNCHANGED <<mpc, args, query, results, bpc, bext, bexc, bprint, images, dirs, files, csvs>>

\* lines 198-219: the request returns a response; the file name, the folder,
\* the write
FetchSaves(b, k) ==
    /\ task[b][k].st = "running"
    /\ \E response \in Responses :
       LET t == task[b][k]
           filename == Filename(t.idx, t.image.ext)
           output_dir == ResolveDir(args.output_dir)
           folder_name == ResolveFolder(BatchQuery(b), args.folder_name)
           made == create_folder(dirs, output_dir, folder_name)
           path == Join(made.folder, filename)
           data == Body(t.image.url, IF response = "ok" THEN "image" ELSE "error")
       IN  /\ dirs' = made.dirs
           /\ IF made.folder = NoPath
              THEN \* line 214: None / filename raises TypeError, which no clause catches
                   /\ Inject(response)
                   /\ task' = [task EXCEPT ![b][k] =
                         [@ EXCEPT !.st = "done", !.tries = @ + 1, !.page = data.page,
                                   !.exc = "TypeError"]]
                   /\ files' = files
              ELSE \E outcome \in SaveOutcomes :
                   /\ Inject(IF response = "ok" THEN outcome ELSE response)
                   /\ files' = WriteFile(files, path, data, outcome = "ok")
                   /\ task' = [task EXCEPT ![b][k] =
                         [@ EXCEPT !.st = "done", !.tries = @ + 1, !.page = data.page,
                                   !.path = path,
                                   !.printed = SaveHandler(outcome),
                                   !.exc = IF outcome = "ok" \/ SaveHandler(outcome) # "none"
                                           THEN "none" ELSE outcome]]
    /\ UNCHANGED <<mpc, args, query, results, bpc, bext, bexc, bprint, images, csvs>>

\* PoolDone that leaves the pool at the first future that failed
PoolDoneOnFailure(b) ==
    /\ bpc[b] = "pool"
    /\ Len(task[b]) = Len(images[b])
    /\ \/ AllDone(b)
       \/ \E k \in 1..Len(task[b]) : task[b][k].st = "done" /\ task[b][k].printed # "none"
    /\ bpc' = [bpc EXCEPT ![b] = IF args.urls_to_csv \/ args.just_csv_no_download
                                 THEN "csv" ELSE "returned"]
    /\ UNCHANGED <<mpc, args, query, results, bext, bexc, bprint, images, task, dirs, files, csvs, faults>>

\* lines 260-264: as_completed has yielded every future and the with block has
\* shut the pool down
PoolDone(b) ==
    /\ bpc[b] = "pool"
    /\ Len(task[b]) = Len(images[b])
    /\ AllDone(b)
    /\ bpc' = [bpc EXCEPT ![b] = IF args.urls_to_csv \/ args.just_csv_no_download
                                 THEN "csv" ELSE "returned"]
    /\ UNCHANGED <<mpc, args, query, results, bext, bexc, bprint, images, task, dirs, files, csvs, faults>>

\* save_urls_csv without the writerow of line 105
save_urls_csv_no_header(cs, ds, data, output_dir, name) ==
    IF output_dir = None
    THEN [csvs |-> cs, exc |-> "TypeError"]
    ELSE IF Dir(output_dir) \in ds
    THEN [csvs |-> {c \in cs : ~(c.dir = output_dir /\ c.name = CsvName(name))}
                   \cup {[dir |-> output_dir, name |-> CsvName(name),
                          rows |-> [i \in 1..Len(data) |-> <<data[i].url, data[i].ext>>]]},
          exc |-> "none"]
    ELSE [csvs |-> cs, exc |-> "none"]

\* save_urls_csv, lines 99-106, with the rows it writes
save_urls_csv(cs, ds, data, output_dir, name) ==
    IF output_dir = None
    THEN [csvs |-> cs, exc |-> "TypeError"]    \* line 99: Path(None)
    ELSE IF Dir(output_dir) \in ds
    THEN [csvs |-> {c \in cs : ~(c.dir = output_dir /\ c.name = CsvName(name))}
                   \cup {[dir |-> output_dir, name |-> CsvName(name),
                          rows |-> <<CsvHeader>> \o
                                   [i \in 1..Len(data) |-> <<data[i].url, data[i].ext>>]]},
          exc |-> "none"]
    ELSE [csvs |-> cs, exc |-> "none"]

\* WriteCsv that lists only the records whose fetch task ended without a failure
WriteCsvFetched(b) ==
    /\ bpc[b] = "csv"
    /\ LET csv_filename == default_query_name(BatchQuery(b))
           fetched == SelectSeq(task[b], LAMBDA t : t.printed = "none" /\ t.exc = "none")
           data == IF args.just_csv_no_download THEN images[b]
                   ELSE [i \in 1..Len(fetched) |-> fetched[i].image]
           r == save_urls_csv(csvs, dirs, data, args.output_dir, csv_filename)
       IN  /\ csvs' = r.csvs
           /\ bexc' = [bexc EXCEPT ![b] = r.exc]
           /\ bpc' = [bpc EXCEPT ![b] = IF r.exc = "none" THEN "returned" ELSE "raised"]
    /\ UNCHANGED <<mpc, args, query, results, bext, bprint, images, task, dirs, files, faults>>

\* lines 253 and 265
WriteCsv(b) ==
    /\ bpc[b] = "csv"
    /\ LET csv_filename == default_query_name(BatchQuery(b))
           r == save_urls_csv(csvs, dirs, images[b], args.output_dir, csv_filename)
       IN  /\ csvs' = r.csvs
           /\ bexc' = [bexc EXCEPT ![b] = r.exc]
           /\ bpc' = [bpc EXCEPT ![b] = IF r.exc = "none" THEN "returned" ELSE "raised"]
    /\ UNCHANGED <<mpc, args, query, results, bext, bprint, images, task, dirs, files, faults>>

----------------------------------------------------------------------------
(* The main block, lines 299-307, and download_list_queries, lines 279-282 *)

\* token lists the command line may carry
TokenLists == {<<S_dog>>, <<S_red, S_bear>>, <<S_cat_plus_dog>>}

\* path_dir that accepts every string
path_dir_any(ds, dir_string) == TRUE

\* path_dir, lines 39-41, as argparse applies it to --output_dir
path_dir(ds, dir_string) == Dir(dir_string) \in ds

\* line 289: get_user_input raises, path_dir refused --output_dir
ParseFails ==
    /\ mpc = "parse"
    /\ args.output_dir # None /\ ~path_dir(dirs, args.output_dir)
    /\ mpc' = "crashed"
    /\ UNCHANGED <<args, query, results, bpc, bext, bexc, bprint, images, task, dirs, files, csvs, faults>>

\* lines 289-303: the command line is parsed; line 300 calls the batch of
\* --query when it was given, else control is at line 303
ParseOk ==
    /\ mpc = "parse"
    /\ args.output_dir # None => path_dir(dirs, args.output_dir)
    /\ IF args.query # <<>>
       THEN mpc' = "query" /\ bpc' = [bpc EXCEPT ![0] = "extract"]
       ELSE mpc' = (IF args.list_queries # <<>> THEN "list" ELSE "done") /\ bpc' = bpc
    /\ UNCHANGED <<args, query, results, bext, bexc, bprint, images, task, dirs, files, csvs, faults>>

\* line 300 returned: line 303 goes on to --list_queries when it was given
QueryReturns ==
    /\ mpc = "query"
    /\ bpc[0] = "returned"
    /\ mpc' = (IF args.list_queries # <<>> THEN "list" ELSE "done")
    /\ UNCHANGED <<args, query, results, bpc, bext, bexc, bprint, images, task, dirs, files, csvs, faults>>

\* line 300 raised: the exception leaves the main block
QueryRaises ==
    /\ mpc = "query"
    /\ bpc[0] = "raised"
    /\ mpc' = "crashed"
    /\ UNCHANGED <<args, query, results, bpc, bext, bexc, bprint, images, task, dirs, files, csvs, faults>>

\* lines 280-281: as_completed first drains the generator, which submits one
\* future per query of list_queries, in order
SubmitQueries ==
    /\ mpc = "list"
    /\ \E b \in Batches : bpc[b] = "unsubmitted"
    /\ bpc' = [b \in Batches |-> IF bpc[b] = "unsubmitted" THEN "queued" ELSE bpc[b]]
    /\ UNCHANGED <<mpc, args, query, results, bext, bexc, bprint, images, task, dirs, files, csvs, faults>>

Active == {b \in Batches : bpc[b] \in {"extract", "pool", "csv"}}

\* StartQuery of a pool that starts every submitted batch at once
StartQueryUnbounded(b) ==
    /\ bpc[b] = "queued"
    /\ \A j \in Batches : j < b => bpc[j] # "queued"
    /\ bpc' = [bpc EXCEPT ![b] = "extract"]
    /\ UNCHANGED <<mpc, args, query, results, bext, bexc, bprint, images, task, dirs, files, csvs, faults>>

\* StartQuery of a pool whose workers are not given back when a batch ends
StartQueryLeaks(b) ==
    /\ bpc[b] = "queued"
    /\ \A j \in Batches : j < b => bpc[j] # "queued"
    /\ Cardinality({j \in Batches : bpc[j] \notin {"unsubmitted", "queued"}}) < OuterWidth
    /\ bpc' = [bpc EXCEPT ![b] = "extract"]
    /\ UNCHANGED <<mpc, args, query, results, bext, bexc, bprint, images, task, dirs, files, csvs, faults>>

\* a worker of the outer pool takes the oldest queued batch
StartQuery(b) ==
    /\ bpc[b] = "queued"
    /\ \A j \in Batches : j < b => bpc[j] # "queued"
    /\ Cardinality(Active) < OuterWidth
    /\ bpc' = [bpc EXCEPT ![b] = "extract"]
    /\ UNCHANGED <<mpc, args, query, results, bext, bexc, bprint, images, task, dirs, files, csvs, faults>>

\* ListReturns that asks each future for its result
ListReturnsResult ==
    /\ mpc = "list"
    /\ \A b \in Batches : Finished(b)
    /\ mpc' = IF \E b \in Batches : bpc[b] = "raised" THEN "crashed" ELSE "done"
    /\ UNCHANGED <<args, query, results, bpc, bext, bexc, bprint, images, task, dirs, files, csvs, faults>>

\* lines 281-282: as_completed has yielded every future (none is asked for its
\* result, so an exception a batch ended with stays in its future) and the
\* with block has shut the pool down
ListReturns ==
    /\ mpc = "list"
    /\ \A b \in Batches : Finished(b)
    /\ mpc' = "done"
    /\ UNCHANGED <<args, query, results, bpc, bext, bexc, bprint, images, task, dirs, files, csvs, faults>>

----------------------------------------------------------------------------
(* Specifications *)

\* the result pages a query may have: up to n records of the pool
Pages(n) == {ImagesOf(m, off) : m \in 0..n, off \in 0..1}

InitCommon(bs) ==
    /\ dirs \in Disks
    /\ args.output_dir = OutDir => Dir(Downloads) \in dirs
    /\ bext = [b \in bs |-> "none"]
    /\ bexc = [b \in bs |-> "none"]
    /\ bprint = [b \in bs |-> "none"]
    /\ images = [b \in bs |-> <<>>]
    /\ task = [b \in bs |-> <<>>]
    /\ files = {}
    /\ csvs = {}
    /\ faults = 0

\* a run with --query alone: line 300 calls the batch in the main thread
Init ==
    /\ mpc = "query"
    /\ \E c \in Configs, tokens \in TokenLists : args = Inputs(c, tokens, <<>>)
    /\ query = [b \in {0} |-> StrList(args.query)]
    /\ results \in [{0} -> Pages(MaxRecords)]
    /\ bpc = [b \in {0} |-> "extract"]
    /\ InitCommon({0})

BatchStep(b) ==
    \/ Extract(b)
    \/ Submit(b)
    \/ \E k \in 1..Len(task[b]) : Start(b, k)
    \/ \E k \in 1..Len(task[b]) : FetchFails(b, k)
    \/ \E k \in 1..Len(task[b]) : FetchSaves(b, k)
    \/ PoolDone(b)
    \/ WriteCsv(b)

Next ==
    \/ BatchStep(0)
    \/ QueryReturns
    \/ QueryRaises

Spec == Init /\ [][Next]_vars

\* the same run on result pages longer than the inner pool is wide
InitPool ==
    /\ mpc = "query"
    /\ \E c \in Configs :
          /\ c.folder_name = NoName /\ ~c.just_csv_no_download
          /\ c.urls_to_csv /\ c.output_dir = OutDir
          /\ args = Inputs(c, <<S_dog>>, <<>>)
    /\ query = [b \in {0} |-> StrList(args.query)]
    /\ results = [b \in {0} |-> ImagesOf(InnerWidth + PoolExtra, 0)]
    /\ bpc = [b \in {0} |-> "extract"]
    /\ InitCommon({0})

SpecPool == InitPool /\ [][Next]_vars

\* the --list_queries command lines tried: two queries, the same query twice,
\* a query of two words
ListRuns ==
    { <<<<S_dog>>, <<S_horse>>>>, <<<<S_dog>>, <<S_dog>>>>, <<<<S_red, S_bear>>, <<S_cat>>>>,
      <<<<S_red_spaces_bear>>, <<S_cat_plus_dog>>>> }

RECURSIVE SumLen(_)
SumLen(seqs) == IF seqs = <<>> THEN 0 ELSE Len(Head(seqs)) + SumLen(Tail(seqs))

\* a run with --list_queries alone: line 306 joins each token list, line 307
\* calls download_list_queries
InitList ==
    /\ mpc = "list"
    /\ \E c \in Configs, run \in ListRuns :
          /\ ~c.just_csv_no_download
          /\ args = Inputs(c, <<>>, run)
          /\ query = [b \in 1..Len(run) |-> JoinTokens(run[b])]
          /\ results \in [1..Len(run) -> {ImagesOf(m, 0) : m \in 0..MaxListRecords}]
          /\ SumLen(results) <= MaxListRecords
          /\ bpc = [b \in 1..Len(run) |-> "unsubmitted"]
          /\ InitCommon(1..Len(run))
    /\ Dir(Downloads) \in dirs

NextList ==
    \/ SubmitQueries
    \/ \E b \in Batches : StartQuery(b)
    \/ \E b \in Batches : BatchStep(b)
    \/ ListReturns

SpecList == InitList /\ [][NextList]_vars

\* list runs wider than a pool: one query more than the outer pool has
\* workers, the first of them with one record; or one query with one record
\* more than its inner pool has workers
WideRuns ==
    { [b \in 1..(OuterWidth + PoolExtra) |-> <<S_dog>>], <<<<S_dog>>>> }

\* a wide run: first is the page of the first of several queries (the pages
\* of the others are empty), csv is their --urls_to_csv; the environment has
\* one failure left to inject
WideInit(first, csv) ==
    /\ mpc = "list"
    /\ \E c \in Configs, run \in WideRuns :
          /\ c.folder_name = NoName /\ ~c.just_csv_no_download
          /\ c.urls_to_csv = (Len(run) = 1 \/ csv) /\ c.output_dir = OutDir
          /\ args = Inputs(c, <<>>, run)
          /\ query = [b \in 1..Len(run) |-> JoinTokens(run[b])]
          /\ results = [b \in 1..Len(run) |->
                           IF Len(run) = 1 THEN ImagesOf(InnerWidth + PoolExtra, 0)
                           ELSE IF b = 1 THEN first ELSE <<>>]
          /\ bpc = [b \in 1..Len(run) |-> "unsubmitted"]
    /\ dirs = {Dir(OutDir), Dir(Downloads)}
    /\ bext = [b \in Batches |-> "none"]
    /\ bexc = [b \in Batches |-> "none"]
    /\ bprint = [b \in Batches |-> "none"]
    /\ images = [b \in Batches |-> <<>>]
    /\ task = [b \in Batches |-> <<>>]
    /\ files = {}
    /\ csvs = {}
    /\ faults = MaxFaults - 1

InitWide == WideInit(ImagesOf(1, 0), TRUE)

SpecWide == InitWide /\ [][NextList]_vars

InitWideFair == WideInit(<<>>, FALSE)

\* every extraction and every fetch that has started finishes, and a pool
\* hands every queued item to a worker that is free
SpecWideFair == InitWideFair /\ [][NextList]_vars /\ WF_vars(NextList)

RECURSIVE Total(_, _)
\* the number of records on the pages of the batches bs
Total(pages, bs) ==
    IF bs = {} THEN 0
    ELSE LET b == CHOOSE x \in bs : TRUE
         IN  Len(pages[b]) + Total(pages, bs \ {b})

\* a whole run of the main block, from the command line: --output_dir may name
\* a directory that does not exist, --query and --list_queries may both be
\* given; batch 0 is the batch of --query, not yet called
InitMain ==
    /\ mpc = "parse"
    /\ \E c \in Configs, out \in {None, OutDir, BadDir},
          q \in {<<>>, <<S_dog>>}, lq \in {<<>>, <<<<S_cat>>>>} :
          /\ c.folder_name = NoName /\ c.output_dir = None
          /\ args = Inputs([c EXCEPT !.output_dir = out], q, lq)
          /\ LET bs == (IF q = <<>> THEN {} ELSE {0}) \cup (1..Len(lq))
             IN  /\ query = [b \in bs |-> IF b = 0 THEN StrList(q) ELSE JoinTokens(lq[b])]
                 /\ results \in [bs -> {ImagesOf(m, 0) : m \in 0..MaxListRecords}]
                 /\ Total(results, bs) <= MaxListRecords
                 /\ bpc = [b \in bs |-> "unsubmitted"]
                 /\ InitCommon(bs)

NextMain ==
    \/ ParseFails
    \/ ParseOk
    \/ QueryReturns
    \/ QueryRaises
    \/ SubmitQueries
    \/ \E b \in Batches : StartQuery(b)
    \/ \E b \in Batches : BatchStep(b)
    \/ ListReturns

SpecMain == InitMain /\ [][NextMain]_vars

----------------------------------------------------------------------------
(* Properties *)

Tasks(b) == 1..Len(task[b])

\* the batch has left the with block of lines 258-261
PoolOver(b) ==
    /\ ~args.just_csv_no_download
    /\ \/ bpc[b] \in {"csv", "returned"}
       \/ bpc[b] = "raised" /\ bexc[b] = "TypeError"

\* the task hit one of the failure conditions: an exception of the request, a
\* response with an error status, a failure of the write
InF(t) == t.printed # "none" \/ t.exc # "none" \/ t.page = "error"

\* the file of the task is on disk, complete, with the bytes of its url
Written(t) ==
    /\ t.path # NoPath
    /\ [path |-> t.path, data |-> Body(t.image.url, "image"), full |-> TRUE] \in files

\* C1: failure isolation within a batch -- when the batch has left its pool,
\* one future was made for every record, every future has finished, and every
\* task that hit no failure condition made its one request and has its file
\* written, whatever happened to its siblings.
C1_FailureIsolation ==
    \A b \in Batches :
        PoolOver(b) =>
            /\ Len(task[b]) = Len(images[b])
            /\ \A k \in Tasks(b) :
                  /\ task[b][k].st = "done"
                  /\ ~InF(task[b][k]) => task[b][k].tries = 1 /\ Written(task[b][k])

\* a batch that returned in which an earlier task failed and a later one is written
C1_Witness ==
    \E b \in Batches : \E j, k \in Tasks(b) :
        /\ bpc[b] = "returned"
        /\ j < k
        /\ InF(task[b][j]) /\ task[b][j].printed = "timeout"
        /\ ~InF(task[b][k]) /\ Written(task[b][k])

\* C2: batch completion ordering -- in download mode the batch is past its
\* pool (writing the CSV, returned or raised) only when every future it
\* submitted is done, by success or by failure.
C2_WaitsForAll ==
    \A b \in Batches :
        bpc[b] \in {"csv", "returned", "raised"} =>
            \A k \in Tasks(b) : task[b][k].st = "done"

\* a batch that returned with a failed task and a task that finished without failure
C2_Witness ==
    \E b \in Batches : \E j, k \in Tasks(b) :
        /\ bpc[b] = "returned"
        /\ task[b][j].printed # "none"
        /\ ~InF(task[b][k])

\* C3: inner concurrency bound -- at most 5 fetch tasks of one batch are
\* started and not yet completed, however many records the batch has.
C3_InnerBound ==
    \A b \in Batches : Cardinality(Running(b)) <= 5

\* five tasks in flight while a sixth record waits in the queue
C3_Witness ==
    \E b \in Batches :
        /\ Cardinality(Running(b)) = 5
        /\ \E k \in Tasks(b) : task[b][k].st = "queued"

\* the extraction of the batch failed: a timeout, an error status, a connection
\* failure, a parse failure
ExtractionFailed(b) == bext[b] \in ExtractOutcomes \ {"ok"}

\* C4: query-level isolation -- a query whose extraction failed has no fetch
\* task; when download_list_queries is over every batch has finished, every
\* batch whose extraction succeeded has one finished task per record of its
\* page, and no exception has left download_list_queries.
C4_QueryIsolation ==
    /\ mpc # "crashed"
    /\ \A b \in Batches : ExtractionFailed(b) => task[b] = <<>>
    /\ mpc = "done" =>
          \A b \in Batches :
              /\ Finished(b)
              /\ \A k \in Tasks(b) : task[b][k].st = "done"
              /\ ~ExtractionFailed(b) =>
                    bext[b] = "ok" /\ Len(task[b]) = Len(results[b])

\* a finished run in which one query's extraction raised and a sibling's task
\* is written
C4_Witness ==
    /\ mpc = "done"
    /\ \E b1, b2 \in Batches :
          /\ b1 # b2
          /\ ExtractionFailed(b1) /\ bpc[b1] = "raised"
          /\ bext[b2] = "ok" /\ Len(task[b2]) >= 1 /\ Written(task[b2][1])

\* two tasks of the run, both with a destination resolved
Resolved(b1, k1, b2, k2) ==
    /\ <<b1, k1>> # <<b2, k2>>
    /\ task[b1][k1].path # NoPath
    /\ task[b2][k2].path # NoPath

\* C5 as stated: no two fetch tasks of a run resolve to the same destination
\* path, under any placement configuration.
C5_UniquePaths ==
    \A b1, b2 \in Batches : \A k1 \in Tasks(b1), k2 \in Tasks(b2) :
        Resolved(b1, k1, b2, k2) => task[b1][k1].path # task[b2][k2].path

\* C5 as amended: two tasks of the same batch never resolve to the same path,
\* and neither do tasks of two queries when no folder_name is given and the
\* queries' normalized names differ.
C5_UniquePathsPerFolder ==
    \A b1, b2 \in Batches : \A k1 \in Tasks(b1), k2 \in Tasks(b2) :
        /\ Resolved(b1, k1, b2, k2)
        /\ \/ b1 = b2
           \/ /\ args.folder_name = NoName
              /\ default_query_name(BatchQuery(b1)) # default_query_name(BatchQuery(b2))
        => task[b1][k1].path # task[b2][k2].path

\* tasks of two queries with the same file name in two folders
C5_Witness ==
    \E b1, b2 \in Batches : \E k1 \in Tasks(b1), k2 \in Tasks(b2) :
        /\ b1 # b2
        /\ Resolved(b1, k1, b2, k2)
        /\ args.folder_name = NoName
        /\ task[b1][k1].path.name = task[b2][k2].path.name
        /\ task[b1][k1].path.folder # task[b2][k2].path.folder

\* C6: index uniqueness within one query -- the futures of a batch carry the
\* indices 0..N-1, the k-th record under index k-1, so the file names
\* image_0.* .. image_{N-1}.* are pairwise distinct; and whatever the order in
\* which the tasks complete, a file written under index i holds the bytes of
\* record i.
C6_IndexUniqueness ==
    \A b \in Batches :
        Len(task[b]) > 0 =>
            /\ Len(task[b]) = Len(images[b])
            /\ \A k \in Tasks(b) :
                  /\ task[b][k].idx = k - 1
                  /\ task[b][k].image = images[b][k]
                  /\ task[b][k].path # NoPath =>
                        /\ task[b][k].path.name =
                              S_image_ \o StrInt(k - 1) \o <<".">> \o images[b][k].ext
                        /\ \A f \in files :
                              f.path = task[b][k].path => f.data.url = images[b][k].url
            /\ \A j, k \in Tasks(b) :
                  j # k => Filename(task[b][j].idx, task[b][j].image.ext)
                           # Filename(task[b][k].idx, task[b][k].image.ext)

\* the third record's file is on disk while the first task is still in flight
C6_Witness ==
    \E b \in Batches :
        /\ Len(task[b]) >= 3
        /\ task[b][1].st = "running"
        /\ task[b][3].st = "done" /\ Written(task[b][3])
        /\ task[b][3].path.name = <<"i", "m", "a", "g", "e", "_", "2", ".", "j", "p", "g">>

\* the rows save_urls_csv is asked to write for the records of a batch
RowsOf(b) == [i \in 1..Len(images[b]) |-> <<images[b][i].url, images[b][i].ext>>]

\* C7: CSV-only mode -- with just_csv_no_download no fetch task is ever created
\* or started and no image is written, and when the batch has returned its CSV
\* holds the header row image_url,extension and then one row per extracted
\* record, in extraction order.
C7_CsvOnly ==
    args.just_csv_no_download =>
        /\ files = {}
        /\ \A b \in Batches :
              /\ task[b] = <<>>
              /\ bpc[b] = "returned" =>
                    \E c \in csvs :
                        /\ c.name = CsvName(default_query_name(BatchQuery(b)))
                        /\ Len(c.rows) = Len(images[b]) + 1
                        /\ c.rows[1] = <<"image_url", "extension">>
                        /\ \A i \in 1..Len(images[b]) : c.rows[i + 1] = RowsOf(b)[i]

\* a csv-only batch of three records that returned with a CSV of four rows
C7_Witness ==
    /\ args.just_csv_no_download
    /\ \E b \in Batches :
          /\ bpc[b] = "returned"
          /\ Len(images[b]) = 3
          /\ \E c \in csvs : Len(c.rows) = 4

\* the batch was asked for a record listing and its extraction returned
ListingDue(b) ==
    /\ args.urls_to_csv \/ args.just_csv_no_download
    /\ Finished(b)
    /\ bext[b] \in {"ok", "http_status"}

\* C8: CSV placement -- when a record listing is requested, the batch ends with
\* <normalized_query>_urls.csv in the base directory: the given output_dir, or
\* the default downloads directory when output_dir is None.
C8_CsvPlacement ==
    \A b \in Batches :
        ListingDue(b) =>
            \E c \in csvs :
                /\ c.dir = (IF args.output_dir = None THEN Downloads ELSE args.output_dir)
                /\ c.name = CsvName(default_query_name(BatchQuery(b)))

\* the task ended as a download that succeeded: nothing printed, nothing
\* raised, its file complete on disk
SilentSuccess(t) ==
    /\ t.printed = "none"
    /\ t.exc = "none"
    /\ \E f \in files : f.path = t.path /\ f.full

\* C9: per-item failure reporting, for the HTTP-level error status -- a task
\* whose request was answered with an error status ends in a reported, failed
\* outcome: it never ends as an unreported success with the response body
\* saved as the image.
C9_FailuresReported ==
    \A b \in Batches : \A k \in Tasks(b) :
        task[b][k].st = "done" /\ task[b][k].page = "error" =>
            ~SilentSuccess(task[b][k])

\* /tmp/out/dog/image_0.jpg with urlA's bytes, /tmp/out/dog/image_1.png with urlB's
DogFiles ==
    { [path |-> [dir |-> "/tmp/out", folder |-> <<"d", "o", "g">>,
                 name |-> <<"i", "m", "a", "g", "e", "_", "0", ".", "j", "p", "g">>],
       data |-> [url |-> "urlA", page |-> "image"], full |-> TRUE],
      [path |-> [dir |-> "/tmp/out", folder |-> <<"d", "o", "g">>,
                 name |-> <<"i", "m", "a", "g", "e", "_", "1", ".", "p", "n", "g">>],
       data |-> [url |-> "urlB", page |-> "image"], full |-> TRUE] }

\* C10: placement function -- the destination a task resolves is the base
\* directory (output_dir, or Downloads when it is None), then folder_name when
\* given and the normalized query otherwise, then image_<index>.<type_hint>
\* with the record's type hint verbatim; the file there holds the bytes of the
\* task's record.  For query dog, records (urlA, jpg), (urlB, png) and base
\* /tmp/out, a run without failures ends with exactly /tmp/out/dog/image_0.jpg
\* holding urlA's bytes and /tmp/out/dog/image_1.png holding urlB's.
C10_Placement ==
    /\ \A b \in Batches : \A k \in Tasks(b) :
          task[b][k].path # NoPath =>
              /\ task[b][k].path.dir =
                    (IF args.output_dir = None THEN Downloads ELSE args.output_dir)
              /\ task[b][k].path.folder =
                    (IF args.folder_name # NoName THEN args.folder_name
                     ELSE default_query_name(Replace(query[b], " ", "+")))
              /\ task[b][k].path.name =
                    S_image_ \o StrInt(k - 1) \o <<".">> \o results[b][k].ext
              /\ \A f \in files :
                    f.path = task[b][k].path => f.data.url = results[b][k].url
    /\ \A b \in Batches :
          /\ query[b] = StrList(<<S_dog>>)
          /\ results[b] = <<[url |-> "urlA", ext |-> S_jpg], [url |-> "urlB", ext |-> S_png]>>
          /\ args.output_dir = "/tmp/out" /\ args.folder_name = NoName
          /\ ~args.just_csv_no_download
          /\ bpc[b] = "returned" /\ faults = 0
          => files = DogFiles

\* the end of the run of the example
C10_Witness ==
    /\ mpc = "done"
    /\ query[0] = StrList(<<S_dog>>)
    /\ args.output_dir = "/tmp/out" /\ args.folder_name = NoName
    /\ files = DogFiles

\* the names batch b has used so far are name: the folder of every path its
\* fetch tasks resolved without --folder_name, and its CSV once it returned
Named(b, name) ==
    /\ \A k \in 1..Len(task[b]) :
          (args.folder_name = NoName /\ task[b][k].path # NoPath) =>
              task[b][k].path.folder = name
    /\ (args.urls_to_csv /\ bpc[b] = "returned") =>
          \E c \in csvs : c.name = name \o S_urls_csv

\* C11 as stated: the name of the query "red   bear" (three spaces) is
\* red_bear, the name of "cat+dog" is cat_dog, and the list input ['dog'],
\* ['horse'] becomes the two queries dog and horse.
C11_NormalizationCollapses ==
    /\ args.list_queries = <<<<S_dog>>, <<S_horse>>>> => query = <<S_dog, S_horse>>
    /\ \A b \in Batches :
          /\ query[b] = S_red_spaces_bear => Named(b, S_red \o <<"_">> \o S_bear)
          /\ query[b] = S_cat_plus_dog => Named(b, S_cat \o <<"_">> \o S_dog)

\* C11: query normalization -- every space and every '+' of a query becomes one
\* underscore of the folder and CSV base name: "red   bear" (three spaces)
\* gives red___bear, "red bear" gives red_bear, "cat+dog" gives cat_dog; and
\* the list input ['dog'], ['horse'] becomes the two queries dog and horse.
C11_Normalization ==
    /\ args.list_queries = <<<<S_dog>>, <<S_horse>>>> => query = <<S_dog, S_horse>>
    /\ \A b \in Batches :
          /\ query[b] = S_red_spaces_bear => Named(b, S_red \o <<"_", "_", "_">> \o S_bear)
          /\ query[b] = S_red \o <<" ">> \o S_bear => Named(b, S_red \o <<"_">> \o S_bear)
          /\ query[b] = S_cat_plus_dog => Named(b, S_cat \o <<"_">> \o S_dog)

\* the batch of "red   bear" returned with a file in the folder red___bear and
\* with red___bear_urls.csv
C11_Witness ==
    \E b \in Batches :
        /\ query[b] = S_red_spaces_bear
        /\ bpc[b] = "returned"
        /\ args.folder_name = NoName
        /\ \E c \in csvs : c.name = S_red \o <<"_", "_", "_">> \o S_bear \o S_urls_csv
        /\ \E f \in files : f.path.folder = S_red \o <<"_", "_", "_">> \o S_bear

\* task t made its request and went on to line 210, the call of create_folder
CalledResolver(t) == t.st = "done" /\ t.page # "none"

\* C12: idempotent placement -- two fetch tasks that call create_folder with
\* the same output_dir and folder_name, one after the other, get the same
\* answer: both the same folder, which exists, or both none; no task ends with
\* an exception of mkdir.
C12_IdempotentPlacement ==
    \A b1 \in Batches, b2 \in Batches : \A k1 \in 1..Len(task[b1]), k2 \in 1..Len(task[b2]) :
        LET t1 == task[b1][k1]
            t2 == task[b2][k2]
        IN  ( /\ CalledResolver(t1) /\ CalledResolver(t2)
              /\ ResolveFolder(BatchQuery(b1), args.folder_name)
                     = ResolveFolder(BatchQuery(b2), args.folder_name) ) =>
                /\ (t1.path = NoPath) <=> (t2.path = NoPath)
                /\ t1.path # NoPath =>
                      /\ t1.path.dir = t2.path.dir /\ t1.path.folder = t2.path.folder
                      /\ Folder(t1.path.dir, t1.path.folder) \in dirs
                /\ t1.exc # "FileExistsError" /\ t2.exc # "FileExistsError"

\* three tasks of one batch wrote their files into the one folder that the
\* first of them created
C12_Witness ==
    \E b \in Batches :
        /\ Len(task[b]) = 3
        /\ \A k \in 1..3 : CalledResolver(task[b][k]) /\ Written(task[b][k])
        /\ \A k \in 1..3 : task[b][k].path.folder = task[b][1].path.folder
        /\ Folder(task[b][1].path.dir, task[b][1].path.folder) \in dirs

\* C13: configuration failure precedes dispatch -- when --output_dir names no
\* existing directory the run fails in argument parsing: no batch is ever
\* called or submitted, no extraction request is made, no fetch task exists and
\* nothing is written.
C13_ConfigurationFailure ==
    (args.output_dir # None /\ Dir(args.output_dir) \notin dirs) =>
        /\ mpc \in {"parse", "crashed"}
        /\ \A b \in Batches :
              bpc[b] = "unsubmitted" /\ bext[b] = "none" /\ task[b] = <<>>
        /\ files = {} /\ csvs = {}

\* the run with --query and --list_queries and a missing --output_dir has ended
\* in argument parsing
C13_Witness ==
    /\ mpc = "crashed"
    /\ args.output_dir = BadDir
    /\ args.query # <<>> /\ args.list_queries # <<>>
    /\ \A b \in Batches : bpc[b] = "unsubmitted"

\* C14: exactly-once, no retry -- the tasks of a batch are one per extracted
\* record, in order; a task has made at most one request, none before it is
\* done and exactly one when it is done, whatever the outcome of the request.
C14_ExactlyOnce ==
    \A b \in Batches :
        /\ Len(task[b]) \in {0, Len(images[b])}
        /\ PoolOver(b) => Len(task[b]) = Len(images[b])
        /\ \A k \in 1..Len(task[b]) :
              /\ task[b][k].image = images[b][k]
              /\ task[b][k].tries = (IF task[b][k].st = "done" THEN 1 ELSE 0)

\* a batch of three records returned: three tasks, one request each, two of
\* them failed
C14_Witness ==
    \E b \in Batches :
        /\ bpc[b] = "returned"
        /\ Len(images[b]) = 3 /\ Len(task[b]) = 3
        /\ \A k \in 1..3 : task[b][k].tries = 1
        /\ \E j, k \in 1..3 : j # k /\ InF(task[b][j]) /\ InF(task[b][k])

\* C15: resolver postcondition -- every call of create_folder by a fetch task
\* returns a path, and the folder of that path exists when the call returns,
\* for every base directory, the default downloads directory that is not on
\* disk included.
C15_ResolverPostcondition ==
    \A b \in Batches : \A k \in 1..Len(task[b]) :
        CalledResolver(task[b][k]) =>
            /\ task[b][k].path # NoPath
            /\ Folder(task[b][k].path.dir, task[b][k].path.folder) \in dirs

\* the requests of batch b that are in flight
InFlight(b) == SelectSeq(task[b], LAMBDA t : t.st = "running")

\* C16: two-level bound -- at most 5 batches are in flight; each of them has at
\* most 5 fetch tasks in flight and a batch that is not in flight has none, so
\* at most 25 fetch tasks are in flight in the run.
C16_TwoLevelBound ==
    /\ Cardinality(Active) <= 5
    /\ \A b \in Batches :
          /\ Len(InFlight(b)) <= 5
          /\ InFlight(b) # <<>> => b \in Active
    /\ Total([b \in Batches |-> InFlight(b)], Batches) <= 25

\* five batches in flight, one of them with its fetch task in flight, while a
\* sixth query waits in the queue of the outer pool
C16_Witness ==
    /\ Cardinality(Active) = 5
    /\ \E b \in Batches : bpc[b] = "queued"
    /\ \E b \in Active : InFlight(b) # <<>>

\* the CSV files of batch b
CsvsOf(b) == {c \in csvs : c.name = CsvName(default_query_name(BatchQuery(b)))}

\* C17: CSV ordering in csv mode -- with urls_to_csv and downloading both on,
\* a CSV of a batch exists only when every record of the batch has a fetch task
\* and every one of these tasks is done; it holds the header and one row for
\* every extracted record, whether the task of the record failed or not; and a
\* batch that returned has its CSV.
C17_CsvAfterFetches ==
    (args.urls_to_csv /\ ~args.just_csv_no_download) =>
        \A b \in Batches :
            /\ \A c \in CsvsOf(b) :
                  /\ Len(task[b]) = Len(images[b])
                  /\ AllDone(b)
                  /\ c.rows = <<CsvHeader>> \o RowsOf(b)
            /\ bpc[b] = "returned" => CsvsOf(b) # {}

\* a batch of three records in csv mode returned: two of its fetch tasks
\* failed, its CSV has the header and three rows
C17_Witness ==
    /\ args.urls_to_csv /\ ~args.just_csv_no_download
    /\ \E b \in Batches :
          /\ bpc[b] = "returned"
          /\ Len(task[b]) = 3
          /\ \E j, k \in 1..3 : j # k /\ InF(task[b][j]) /\ InF(task[b][k])
          /\ \E c \in CsvsOf(b) : Len(c.rows) = 4

C19_ExtractionFailureRaises ==
    \A b \in Batches :
        ExtractionFailed(b) =>
            /\ bpc[b] = "raised"
            /\ task[b] = <<>>
            /\ CsvsOf(b) = {}
            /\ b = 0 =>
                  /\ mpc \in {"query", "crashed"}
                  /\ \A j \in Batches \ {0} : bpc[j] = "unsubmitted"

====
